---- MODULE Spec2Model ----
(***************************************************************************)
(* Model of the data pipeline of CoffeeDashboard/dashboard.py:             *)
(*   load_data_optimized -> apply_clustering_improved -> sidebar filters   *)
(*   -> filter_by_date_range_optimized                                     *)
(* Quantities are fixed-point numbers: a number x is held as the integer   *)
(* x * Scale, so that fractional quantities and Python's round() exist in  *)
(* the model.  Prices after the $round stage are whole currency units.     *)
(***************************************************************************)
EXTENDS Integers, Sequences, FiniteSets, TLC

VARIABLES
    source,       \* the documents of the MongoDB collection
    pc,           \* position of the script
    client,       \* the MongoClient of load_data_optimized: none/open/closed
    load_error,   \* st.error was shown by the except clause of the load
    all_data,     \* rows collected by the cursor loop
    all_dates,    \* valid dates collected by the cursor loop
    min_date, max_date,
    df,           \* the frame returned by the load, then the clustered frame
    sel_df,       \* filtered_df after the sidebar filters: the filter's input
    start_date, end_date,
    filtered_df,  \* the frame returned by filter_by_date_range_optimized
    again_df,     \* the filter applied to its own output, same window
    warned,       \* st.warning was shown by the except clause of the filter
    display_mode, \* the mode select box: "Ban hang" (sales) or "Ton kho" (stock)
    seg_df,       \* filtered_df after categorize_price_segment (line 834)
    segment_analysis  \* the rollup: as of line 788, then as of line 881

vars == <<source, pc, client, load_error, all_data, all_dates, min_date,
          max_date, df, sel_df, start_date, end_date, filtered_df, again_df,
          warned, display_mode, seg_df, segment_analysis>>

\* the variables of the stages after the date filter
report_vars == <<display_mode, seg_df, segment_analysis>>

(* ------------------------------ bounds -------------------------------- *)
\* fixed-point resolution of quantities: x is stored as x * Scale
Scale == 2
\* longest hand-picked tail of a stock_history (after the padding events)
MaxHist == 2
\* most rows of a frame categorize_price_segment is applied to on its own
MaxRows == 5

(* ------------------------- program constants -------------------------- *)
SliceLimit == 100      \* "$slice": [..., 100] in the aggregation pipeline
SliceKeep == 50        \* product.get('stock_history', [])[:50]
PriceFloor == 1000     \* max(1000, product.get('price', 1000))

(* ------------------------------ helpers ------------------------------- *)
Max(a, b) == IF a >= b THEN a ELSE b
Min(a, b) == IF a <= b THEN a ELSE b
Take(s, n) == SubSeq(s, 1, Min(n, Len(s)))

\* values a document field can hold: number, numeric string, other string,
\* null, or the key is absent
Num(x2) == [t |-> "num", v |-> x2]
NumStr(x2) == [t |-> "str", v |-> x2]
BadStr == [t |-> "bad", v |-> 0]
Null == [t |-> "null", v |-> 0]
Absent == [t |-> "absent", v |-> 0]

\* raw 'date' values: "Y-M-D" text (fields may be out of range), text of
\* another shape, a non-string value, or no 'date' key
Ymd(y, m, d) == [fmt |-> "ymd", y |-> y, m |-> m, d |-> d]
OtherText == [fmt |-> "other", y |-> 0, m |-> 0, d |-> 0]
NoDateKey == [fmt |-> "absent", y |-> 0, m |-> 0, d |-> 0]

\* a parsed datetime.date
Date(y, m, d) == [y |-> y, m |-> m, d |-> d]
NoDate == [y |-> 0, m |-> 0, d |-> 0]

IsLeap(y) == (y % 4 = 0 /\ y % 100 # 0) \/ y % 400 = 0
DaysInMonth(y, m) ==
    IF m = 2 THEN (IF IsLeap(y) THEN 29 ELSE 28)
    ELSE IF m \in {4, 6, 9, 11} THEN 30 ELSE 31

RECURSIVE DaysBeforeMonth(_, _)
DaysBeforeMonth(y, m) ==
    IF m <= 1 THEN 0 ELSE DaysBeforeMonth(y, m - 1) + DaysInMonth(y, m - 1)

\* date.toordinal(): the order the comparison operators of date use
Ordinal(dt) ==
    LET y1 == dt.y - 1
    IN 365 * y1 + (y1 \div 4) - (y1 \div 100) + (y1 \div 400)
       + DaysBeforeMonth(dt.y, dt.m) + dt.d

DateLE(a, b) == Ordinal(a) <= Ordinal(b)

\* datetime.strptime(s, '%Y-%m-%d').date(): ok = FALSE stands for the
\* ValueError / TypeError that the bare except swallows
strptime(raw) ==
    IF /\ raw.fmt = "ymd"
       /\ raw.y \in 1..9999
       /\ raw.m \in 1..12
       /\ raw.d \in 1..DaysInMonth(raw.y, raw.m)
    THEN [ok |-> TRUE, date |-> Date(raw.y, raw.m, raw.d)]
    ELSE [ok |-> FALSE, date |-> NoDate]

(* --------------------- the aggregation pipeline ----------------------- *)
\* "$$entry.<field>": a field path into something that is no document, or
\* into a document without the key, is missing
EntryField(entry, field) ==
    IF entry.kind = "dict" THEN entry[field] ELSE Absent

\* {"$ifNull": [x, 0]}
IfNull0(x) == IF x.t \in {"null", "absent"} THEN Num(0) ELSE x

\* the $max stage left out: the value is summed as it is
MongoMax0_NoClamp(x) == x

\* {"$max": [x, 0]}: in the BSON order every string is above every number
MongoMax0(x) == IF x.t = "num" THEN Num(Max(x.v, 0)) ELSE x

\* the "in" expression of the $map stages
MapEntry(entry, field) == MongoMax0(IfNull0(EntryField(entry, field)))

\* {"$sum": [...]} over entries lo..hi: non-numeric elements are ignored
RECURSIVE MongoSum(_, _, _, _)
MongoSum(hist, field, lo, hi) ==
    IF lo > hi THEN 0
    ELSE IF lo = hi
    THEN LET x == MapEntry(hist[lo], field)
         IN IF x.t = "num" THEN x.v ELSE 0
    ELSE LET mid == (lo + hi) \div 2
         IN MongoSum(hist, field, lo, mid) + MongoSum(hist, field, mid + 1, hi)

\* round half to even of the fixed-point x2, as a whole number
\* (Python round(x, 0) and MongoDB $round)
RoundWhole(x2) ==
    LET q == x2 \div Scale
        r == x2 % Scale
    IN IF 2 * r < Scale THEN q
       ELSE IF 2 * r > Scale THEN q + 1
       ELSE IF q % 2 = 0 THEN q ELSE q + 1

\* round(x, 0) kept in fixed point
Round0(x2) == RoundWhole(x2) * Scale

\* "$match": {"price": {"$gt": 0, "$lt": 1000000000}}
Matches(doc) ==
    /\ doc.price.t = "num"
    /\ doc.price.v > 0
    /\ doc.price.v \div Scale < 1000000000

\* $project and $addFields applied to one matching document
Project(doc) ==
    LET hist == Take(doc.stock_history, SliceLimit)
    IN [_id |-> doc._id, name |-> doc.name, category |-> doc.category,
        price |-> RoundWhole(doc.price.v), promotion |-> doc.promotion,
        stock_history |-> hist,
        total_sold |-> MongoSum(hist, "stock_decreased", 1, Len(hist)),
        total_stock_increased |-> MongoSum(hist, "stock_increased", 1, Len(hist))]

RECURSIVE Aggregate(_)
Aggregate(docs) ==
    IF docs = <<>> THEN <<>>
    ELSE (IF Matches(Head(docs)) THEN <<Project(Head(docs))>> ELSE <<>>)
         \o Aggregate(Tail(docs))

(* ------------------------ load_data_optimized ------------------------- *)
DefaultMin == Date(2025, 3, 5)
DefaultMax == Date(2025, 5, 25)

\* the dates the inner loop adds to all_dates for one kept history
EntryDates(hist) ==
    {strptime(hist[i].date).date :
        i \in {j \in 1..Len(hist) :
                  /\ hist[j].kind = "dict"
                  /\ hist[j].date.fmt # "absent"
                  /\ strptime(hist[j].date).ok}}

\* the row without the floor: price is the rounded price of the pipeline
LoadRow_NoFloor(product) ==
    LET price == product.price
        total_sold == Max(0, product.total_sold)
        total_stock_increased == Max(0, product.total_stock_increased)
    IN [id |-> product._id, name |-> product.name,
        category |-> product.category, price |-> price,
        promotion |-> product.promotion,
        total_sold |-> Round0(total_sold),
        revenue |-> Round0(price * total_sold),
        total_stock_increased |-> Round0(total_stock_increased),
        stock_revenue |-> Round0(price * total_stock_increased),
        stock_history |-> Take(product.stock_history, SliceKeep)]

\* the dict appended to all_data for one product of the cursor
LoadRow(product) ==
    LET price == Max(PriceFloor, product.price)
        total_sold == Max(0, product.total_sold)
        total_stock_increased == Max(0, product.total_stock_increased)
    IN [id |-> product._id, name |-> product.name,
        category |-> product.category, price |-> price,
        promotion |-> product.promotion,
        total_sold |-> Round0(total_sold),
        revenue |-> Round0(price * total_sold),
        total_stock_increased |-> Round0(total_stock_increased),
        stock_revenue |-> Round0(price * total_stock_increased),
        stock_history |-> Take(product.stock_history, SliceKeep)]

LoadRows(cursor) == [i \in 1..Len(cursor) |-> LoadRow(cursor[i])]

LoadDates(cursor) ==
    UNION {EntryDates(Take(cursor[i].stock_history, SliceKeep)) :
             i \in 1..Len(cursor)}

\* min(all_dates) replaced by the latest date
MinDate_Latest(S) == CHOOSE d \in S : \A e \in S : DateLE(e, d)

MinDate(S) == CHOOSE d \in S : \A e \in S : DateLE(d, e)
MaxDate(S) == CHOOSE d \in S : \A e \in S : DateLE(e, d)

\* lines 45-58: read the configuration, create the client.  The getters of
\* config raise ValueError when a variable is unset: no client exists then.
LoadOpen ==
    /\ pc = "start"
    /\ \E ok \in BOOLEAN :
         IF ok THEN client' = "open" /\ pc' = "ping"
         ELSE client' = client /\ pc' = "except"
    /\ UNCHANGED <<source, load_error, all_data, all_dates, min_date, max_date,
                   df, sel_df, start_date, end_date, filtered_df, again_df,
                   warned>>
    /\ UNCHANGED report_vars

\* line 61: client.admin.command('ping') returns or raises
LoadPing ==
    /\ pc = "ping"
    /\ \E ok \in BOOLEAN : pc' = IF ok THEN "aggregate" ELSE "except"
    /\ UNCHANGED <<source, client, load_error, all_data, all_dates, min_date,
                   max_date, df, sel_df, start_date, end_date, filtered_df,
                   again_df, warned>>
    /\ UNCHANGED report_vars

\* lines 109-147: collection.aggregate and the loop over the cursor; the
\* query or a later batch of the cursor may raise
LoadIterate ==
    /\ pc = "aggregate"
    /\ \E ok \in BOOLEAN :
         IF ok
         THEN /\ all_data' = LoadRows(Aggregate(source))
              /\ all_dates' = LoadDates(Aggregate(source))
              /\ pc' = "finish"
         ELSE /\ UNCHANGED <<all_data, all_dates>>
              /\ pc' = "except"
    /\ UNCHANGED <<source, client, load_error, min_date, max_date, df, sel_df,
                   start_date, end_date, filtered_df, again_df, warned>>
    /\ UNCHANGED report_vars

\* lines 149-162: build the frame, the date bounds, close the client, return
LoadFinish ==
    /\ pc = "finish"
    /\ df' = all_data
    /\ IF all_dates = {}
       THEN min_date' = DefaultMin /\ max_date' = DefaultMax
       ELSE min_date' = MinDate(all_dates) /\ max_date' = MaxDate(all_dates)
    /\ client' = "closed"
    /\ pc' = "loaded"
    /\ UNCHANGED <<source, load_error, all_data, all_dates, sel_df, start_date,
                   end_date, filtered_df, again_df, warned>>
    /\ UNCHANGED report_vars

\* lines 164-168: the except clause of the load
LoadExcept ==
    /\ pc = "except"
    /\ load_error' = TRUE
    /\ df' = <<>>
    /\ min_date' = DefaultMin /\ max_date' = DefaultMax
    /\ pc' = "loaded"
    /\ UNCHANGED <<source, client, all_data, all_dates, sel_df, start_date,
                   end_date, filtered_df, again_df, warned>>
    /\ UNCHANGED report_vars

(* --------------------- apply_clustering_improved ---------------------- *)
RECURSIVE Insert(_, _)
Insert(x, sorted) ==
    IF sorted = <<>> THEN <<x>>
    ELSE IF x <= Head(sorted) THEN <<x>> \o sorted
    ELSE <<Head(sorted)>> \o Insert(x, Tail(sorted))

RECURSIVE SortedPrices(_)
SortedPrices(frame) ==
    IF frame = <<>> THEN <<>>
    ELSE Insert(Head(frame).price, SortedPrices(Tail(frame)))

Prices(frame) == {frame[i].price : i \in 1..Len(frame)}

\* 100 * Series.quantile(pct / 100), linear interpolation between the two
\* neighbouring order statistics (exact arithmetic)
Quantile100(frame, pct) ==
    LET xs == SortedPrices(frame)
        pos == (Len(xs) - 1) * pct
        lo == pos \div 100 + 1
        hi == Min(lo + 1, Len(xs))
    IN 100 * xs[lo] + (xs[hi] - xs[lo]) * (pos % 100)

\* categorize_price, lines 190-198 (a price is never NaN after the load)
categorize_price(price, q33, q67) ==
    IF 100 * price <= q33 THEN "Thap"
    ELSE IF 100 * price <= q67 THEN "Trung binh"
    ELSE "Cao"

apply_clustering_improved(frame) ==
    IF frame = <<>> THEN frame
    ELSE LET quantiles == Len(frame) > 1 /\ Cardinality(Prices(frame)) > 1
             q33 == Quantile100(frame, 33)
             q67 == Quantile100(frame, 67)
         IN [i \in 1..Len(frame) |->
               [id |-> frame[i].id, name |-> frame[i].name,
                category |-> frame[i].category, price |-> frame[i].price,
                promotion |-> frame[i].promotion,
                total_sold |-> frame[i].total_sold,
                revenue |-> frame[i].revenue,
                total_stock_increased |-> frame[i].total_stock_increased,
                stock_revenue |-> frame[i].stock_revenue,
                stock_history |-> frame[i].stock_history,
                quantity_sold |-> frame[i].total_sold,
                stock_remaining |-> frame[i].total_stock_increased,
                segment |-> IF quantiles
                            THEN categorize_price(frame[i].price, q33, q67)
                            ELSE "Trung binh"]]

(* ------------------- filter_by_date_range_optimized ------------------- *)
\* the test an entry passes to be appended (lines 227-231)
InWindow(entry, start, end) ==
    /\ entry.kind = "dict"
    /\ entry.date.fmt # "absent"
    /\ strptime(entry.date).ok
    /\ DateLE(start, strptime(entry.date).date)
    /\ DateLE(strptime(entry.date).date, end)

\* filter_stock_history, lines 221-234
filter_stock_history(stock_history, start, end) ==
    SelectSeq(stock_history, LAMBDA entry : InWindow(entry, start, end))

\* float(entry.get(field, 0)): ok = FALSE stands for the ValueError of a
\* non-numeric string and the TypeError of None
PyFloat(entry, field) ==
    LET x == entry[field]
    IN IF x.t = "absent" THEN [ok |-> TRUE, v |-> 0]
       ELSE IF x.t \in {"num", "str"} THEN [ok |-> TRUE, v |-> x.v]
       ELSE [ok |-> FALSE, v |-> 0]

\* the clamp left out: total_sold += float(...)
Clamp_Missing(x) == x

\* max(0, float(entry.get(field, 0)))
Clamp(x) == Max(0, x)

\* the loop of recalculate_metrics over entries lo..hi of a history
RECURSIVE SumField(_, _, _, _)
SumField(hist, field, lo, hi) ==
    IF lo > hi THEN 0
    ELSE IF lo = hi
    THEN (IF hist[lo].kind = "dict" THEN Clamp(PyFloat(hist[lo], field).v)
          ELSE 0)
    ELSE LET mid == (lo + hi) \div 2
         IN SumField(hist, field, lo, mid) + SumField(hist, field, mid + 1, hi)

\* recalculate_metrics raises on this history
Raises(hist) ==
    \E n \in 1..Len(hist) :
        /\ hist[n].kind = "dict"
        /\ \/ ~PyFloat(hist[n], "stock_decreased").ok
           \/ ~PyFloat(hist[n], "stock_increased").ok

\* the metrics added to the ones the row already carries instead of
\* replacing them
recalculate_metrics_Accumulating(row, start, end) ==
    LET hist == SelectSeq(row.stock_history,
                          LAMBDA entry : InWindow(entry, start, end))
        total_sold ==
            row.quantity_sold + SumField(hist, "stock_decreased", 1, Len(hist))
        total_stock_increased ==
            row.stock_remaining
            + SumField(hist, "stock_increased", 1, Len(hist))
    IN [row EXCEPT !.stock_history = hist,
                   !.quantity_sold = total_sold,
                   !.stock_remaining = total_stock_increased,
                   !.revenue = row.price * total_sold,
                   !.stock_revenue = row.price * total_stock_increased]

\* the recomputed sums also written to the columns of the load
recalculate_metrics_OverwritesTotals(row, start, end) ==
    LET hist == filter_stock_history(row.stock_history, start, end)
        total_sold == SumField(hist, "stock_decreased", 1, Len(hist))
        total_stock_increased == SumField(hist, "stock_increased", 1, Len(hist))
    IN [row EXCEPT !.stock_history = hist,
                   !.total_sold = total_sold,
                   !.total_stock_increased = total_stock_increased,
                   !.quantity_sold = total_sold,
                   !.stock_remaining = total_stock_increased,
                   !.revenue = row.price * total_sold,
                   !.stock_revenue = row.price * total_stock_increased]

\* one row of the copy: filtered history, recomputed metrics (lines 237-262)
recalculate_metrics(row, start, end) ==
    LET hist == filter_stock_history(row.stock_history, start, end)
        total_sold == SumField(hist, "stock_decreased", 1, Len(hist))
        total_stock_increased == SumField(hist, "stock_increased", 1, Len(hist))
    IN [row EXCEPT !.stock_history = hist,
                   !.quantity_sold = total_sold,
                   !.stock_remaining = total_stock_increased,
                   !.revenue = row.price * total_sold,
                   !.stock_revenue = row.price * total_stock_increased]

\* the filter without df.copy(): the column assignments land in the caller's
\* frame, and the except clause returns that same frame
filter_by_date_range_optimized_NoCopy(frame, start, end) ==
    LET histories ==
            [i \in 1..Len(frame) |->
               [frame[i] EXCEPT !.stock_history =
                   SelectSeq(frame[i].stock_history,
                             LAMBDA entry : InWindow(entry, start, end))]]
        recomputed ==
            [i \in 1..Len(frame) |->
               LET hist == histories[i].stock_history
                   sold == SumField(hist, "stock_decreased", 1, Len(hist))
                   restocked == SumField(hist, "stock_increased", 1, Len(hist))
               IN [histories[i] EXCEPT
                      !.quantity_sold = sold,
                      !.stock_remaining = restocked,
                      !.revenue = frame[i].price * sold,
                      !.stock_revenue = frame[i].price * restocked]]
    IN IF frame = <<>> THEN [frame |-> frame, warned |-> FALSE, input |-> frame]
       ELSE IF \E i \in 1..Len(frame) : Raises(histories[i].stock_history)
       THEN [frame |-> histories, warned |-> TRUE, input |-> histories]
       ELSE [frame |-> recomputed, warned |-> FALSE, input |-> recomputed]

\* the filter without the guard of lines 213-214: on a frame with no rows
\* and no columns the try block raises KeyError and the except clause runs
filter_by_date_range_optimized_NoEmptyGuard(frame, start, end) ==
    IF frame = <<>> THEN [frame |-> frame, warned |-> TRUE, input |-> frame]
    ELSE IF \E i \in 1..Len(frame) :
              Raises(filter_stock_history(frame[i].stock_history, start, end))
    THEN [frame |-> frame, warned |-> TRUE, input |-> frame]
    ELSE [frame |-> [i \in 1..Len(frame) |->
                       recalculate_metrics(frame[i], start, end)],
          warned |-> FALSE, input |-> frame]

\* the filter handling a raising record on its own: that record is returned
\* as it came, the others are filtered and recomputed
filter_by_date_range_optimized_PerRecord(frame, start, end) ==
    IF frame = <<>> THEN [frame |-> frame, warned |-> FALSE, input |-> frame]
    ELSE [frame |-> [i \in 1..Len(frame) |->
                       IF Raises(filter_stock_history(frame[i].stock_history,
                                                      start, end))
                       THEN frame[i]
                       ELSE recalculate_metrics(frame[i], start, end)],
          warned |-> \E i \in 1..Len(frame) :
                        Raises(filter_stock_history(frame[i].stock_history,
                                                    start, end)),
          input |-> frame]

\* lines 211-268.  frame: the value returned; warned: the except clause ran;
\* input: the caller's frame after the call (the work is done on df.copy(),
\* and the 'stock_history' column of the copy is bound to new lists)
filter_by_date_range_optimized(frame, start, end) ==
    IF frame = <<>> THEN [frame |-> frame, warned |-> FALSE, input |-> frame]
    ELSE IF \E i \in 1..Len(frame) :
              Raises(filter_stock_history(frame[i].stock_history, start, end))
    THEN [frame |-> frame, warned |-> TRUE, input |-> frame]
    ELSE [frame |-> [i \in 1..Len(frame) |->
                       recalculate_metrics(frame[i], start, end)],
          warned |-> FALSE, input |-> frame]

(* ------------------------ categorize_price_segment -------------------- *)
\* a price that is missing (NaN); a price of the load is at least PriceFloor
NaN == -1

isna(price) == price = NaN

\* Series.quantile, min and max leave the missing values out
dropna(frame) == SelectSeq(frame, LAMBDA row : ~isna(row.price))

price_min(frame) ==
    CHOOSE p \in Prices(dropna(frame)) : \A q \in Prices(dropna(frame)) : p <= q

price_max(frame) ==
    CHOOSE p \in Prices(dropna(frame)) : \A q \in Prices(dropna(frame)) : q <= p

\* classify_segment, lines 818-826 (the thresholds are kept times 100)
classify_segment(price, price_25th, price_75th) ==
    IF isna(price) THEN "Khong xac dinh"
    ELSE IF 100 * price <= price_25th THEN "Thap"
    ELSE IF 100 * price <= price_75th THEN "Trung binh"
    ELSE "Cao"

\* 'Thap' if x < price_mid else 'Cao', price_mid = (price_min + price_max) / 2;
\* every comparison with NaN is false
midpoint_segment(x, lo, hi) ==
    IF ~isna(x) /\ 2 * x < lo + hi THEN "Thap" ELSE "Cao"

\* df['segment'] = ... on one row: the column is created or overwritten
SetSegment(row, label) ==
    [column \in DOMAIN row \cup {"segment"} |->
       IF column = "segment" THEN label ELSE row[column]]

\* the midpoint branch tested with <= instead of <
categorize_price_segment_MidInclusive(frame) ==
    IF frame = <<>> \/ dropna(frame) = <<>>
    THEN [i \in 1..Len(frame) |-> SetSegment(frame[i], "Khong xac dinh")]
    ELSE LET price_25th == Quantile100(dropna(frame), 25)
             price_75th == Quantile100(dropna(frame), 75)
             lo == price_min(frame)
             hi == price_max(frame)
         IN [i \in 1..Len(frame) |->
               SetSegment(frame[i],
                 IF price_25th = price_75th
                 THEN (IF lo = hi THEN "Trung binh"
                       ELSE IF ~isna(frame[i].price)
                               /\ 2 * frame[i].price <= lo + hi THEN "Thap"
                       ELSE "Cao")
                 ELSE classify_segment(frame[i].price, price_25th,
                                       price_75th))]

\* the percentile branch with the thresholds of apply_clustering_improved
categorize_price_segment_Tertiles(frame) ==
    IF frame = <<>> \/ dropna(frame) = <<>>
    THEN [i \in 1..Len(frame) |-> SetSegment(frame[i], "Khong xac dinh")]
    ELSE LET price_25th == Quantile100(dropna(frame), 33)
             price_75th == Quantile100(dropna(frame), 67)
             lo == price_min(frame)
             hi == price_max(frame)
         IN [i \in 1..Len(frame) |->
               SetSegment(frame[i],
                 IF price_25th = price_75th
                 THEN (IF lo = hi THEN "Trung binh"
                       ELSE midpoint_segment(frame[i].price, lo, hi))
                 ELSE classify_segment(frame[i].price, price_25th,
                                       price_75th))]

\* lines 791-830
categorize_price_segment(frame) ==
    IF frame = <<>> \/ dropna(frame) = <<>>
    THEN [i \in 1..Len(frame) |-> SetSegment(frame[i], "Khong xac dinh")]
    ELSE LET price_25th == Quantile100(dropna(frame), 25)
             price_75th == Quantile100(dropna(frame), 75)
             lo == price_min(frame)
             hi == price_max(frame)
         IN [i \in 1..Len(frame) |->
               SetSegment(frame[i],
                 IF price_25th = price_75th
                 THEN (IF lo = hi THEN "Trung binh"
                       ELSE midpoint_segment(frame[i].price, lo, hi))
                 ELSE classify_segment(frame[i].price, price_25th,
                                       price_75th))]

(* ------------------------ calculate_segment_analysis ------------------ *)
Sales == "Ban hang"
Stock == "Ton kho"

\* the order df.groupby('segment') puts the labels in (sorted as strings)
LabelOrder == <<"Cao", "Khong xac dinh", "Thap", "Trung binh">>

\* the labels present in the frame, in the order of the groups
GroupLabels(frame) ==
    SelectSeq(LabelOrder,
              LAMBDA label : \E i \in 1..Len(frame) : frame[i].segment = label)

\* .agg({column: 'sum'}) of the group of one label
RECURSIVE GroupSum(_, _, _)
GroupSum(frame, label, column) ==
    IF frame = <<>> THEN 0
    ELSE (IF Head(frame).segment = label THEN Head(frame)[column] ELSE 0)
         + GroupSum(Tail(frame), label, column)

\* Series.sum() of a column of the grouped frame
RECURSIVE ColumnSum(_, _)
ColumnSum(rows, column) ==
    IF rows = <<>> THEN 0
    ELSE Head(rows)[column] + ColumnSum(Tail(rows), column)

RECURSIVE GCD(_, _)
GCD(a, b) == IF b = 0 THEN a ELSE GCD(b, a % b)

\* a percentage is kept as the fraction num / den in lowest terms (num >= 0);
\* 0 / 0 is NaN
Fraction(num, den) ==
    IF den = 0 THEN [num |-> 0, den |-> 0]
    ELSE [num |-> num \div GCD(num, den), den |-> den \div GCD(num, den)]
NaNPct == Fraction(0, 0)

\* the groups with their two sums
Grouped(frame, revenue_column, quantity_column) ==
    LET labels == GroupLabels(frame)
    IN [k \in 1..Len(labels) |->
          [segment |-> labels[k],
           revenue |-> GroupSum(frame, labels[k], revenue_column),
           quantity_sold |-> GroupSum(frame, labels[k], quantity_column)]]

\* num / den rounded to a whole number, halves to even (den > 0, num >= 0)
RoundDiv(num, den) ==
    LET q == num \div den
        r == num % den
    IN IF 2 * r < den THEN q
       ELSE IF 2 * r > den THEN q + 1
       ELSE IF q % 2 = 0 THEN q ELSE q + 1

\* (value / total * 100).round(1), in tenths; pandas gives NaN for 0 / 0
RoundedPct(value, total) ==
    IF total = 0 THEN NaNPct ELSE Fraction(RoundDiv(1000 * value, total), 10)

\* segment_order of line 760
segment_order == <<"Cao", "Trung", "Thap">>

\* the label pd.Categorical gives to a value outside its categories
NoCategory == "nan"

\* the cached first version with the fill-in and the sort, lines 738-788
first_segment_analysis(frame) ==
    LET segment_data == Grouped(frame, "revenue", "quantity_sold")
        total_revenue == ColumnSum(segment_data, "revenue")
        total_quantity == ColumnSum(segment_data, "quantity_sold")
        WithPct(row) ==
            [segment |-> row.segment, quantity_sold |-> row.quantity_sold,
             revenue |-> row.revenue,
             revenue_pct |-> RoundedPct(row.revenue, total_revenue),
             quantity_pct |-> RoundedPct(row.quantity_sold, total_quantity)]
        new_row(segment) ==
            [segment |-> segment, quantity_sold |-> 0, revenue |-> 0,
             revenue_pct |-> Fraction(0, 10), quantity_pct |-> Fraction(0, 10)]
        InOrder(k) ==
            IF \E j \in 1..Len(segment_data) :
                 segment_data[j].segment = segment_order[k]
            THEN WithPct(segment_data[CHOOSE j \in 1..Len(segment_data) :
                           segment_data[j].segment = segment_order[k]])
            ELSE new_row(segment_order[k])
        outside ==
            SelectSeq(segment_data,
                      LAMBDA row : \A k \in 1..Len(segment_order) :
                                     row.segment # segment_order[k])
    IN [k \in 1..Len(segment_order) |-> InOrder(k)]
       \o [j \in 1..Len(outside) |->
             [WithPct(outside[j]) EXCEPT !.segment = NoCategory]]

\* ... / total * 100 if total > 0 else 0
Pct(value, total) ==
    IF total > 0 THEN Fraction(100 * value, total) ELSE Fraction(0, 1)

\* the rollup whose stock branch takes its totals from the sales columns
calculate_segment_analysis_SalesTotals(frame, mode) ==
    IF frame = <<>> THEN <<>>
    ELSE LET segment_stats ==
                 IF mode = Sales
                 THEN Grouped(frame, "revenue", "quantity_sold")
                 ELSE Grouped(frame, "stock_revenue", "stock_remaining")
             sales_stats == Grouped(frame, "revenue", "quantity_sold")
             total_revenue == ColumnSum(sales_stats, "revenue")
             total_quantity == ColumnSum(sales_stats, "quantity_sold")
         IN [k \in 1..Len(segment_stats) |->
               [segment |-> segment_stats[k].segment,
                revenue |-> segment_stats[k].revenue,
                quantity_sold |-> segment_stats[k].quantity_sold,
                revenue_pct |-> Pct(segment_stats[k].revenue, total_revenue),
                quantity_pct |->
                    Pct(segment_stats[k].quantity_sold, total_quantity)]]

\* lines 837-878
calculate_segment_analysis(frame, mode) ==
    IF frame = <<>> THEN <<>>
    ELSE LET segment_stats ==
                 IF mode = Sales
                 THEN Grouped(frame, "revenue", "quantity_sold")
                 ELSE Grouped(frame, "stock_revenue", "stock_remaining")
             total_revenue == ColumnSum(segment_stats, "revenue")
             total_quantity == ColumnSum(segment_stats, "quantity_sold")
         IN [k \in 1..Len(segment_stats) |->
               [segment |-> segment_stats[k].segment,
                revenue |-> segment_stats[k].revenue,
                quantity_sold |-> segment_stats[k].quantity_sold,
                revenue_pct |-> Pct(segment_stats[k].revenue, total_revenue),
                quantity_pct |->
                    Pct(segment_stats[k].quantity_sold, total_quantity)]]

(* ------------------------ documents of the source -------------------- *)
D1 == Ymd(2025, 3, 10)
D2 == Ymd(2025, 4, 10)
D3 == Ymd(2025, 5, 20)

Entry(date, dec, inc) ==
    [kind |-> "dict", date |-> date, stock_decreased |-> dec,
     stock_increased |-> inc]

\* an element of stock_history that is no document
NotADict ==
    [kind |-> "other", date |-> NoDateKey, stock_decreased |-> Absent,
     stock_increased |-> Absent]

\* the entries the hand-picked tails are made of
EntryPool ==
    { Entry(D1, Num(3 * Scale), Num(Scale + 1)),         \* a fraction
      Entry(D3, Num(-2 * Scale), NumStr(4 * Scale)),     \* negative, "4"
      Entry(Ymd(2025, 13, 40), Num(3 * Scale), Absent),  \* no such date
      Entry(D1, BadStr, Null),                           \* "abc", None
      Entry(NoDateKey, Num(1), Num(2 * Scale)),          \* no 'date' key
      NotADict }

\* the entry long histories are padded with
PadEntry == Entry(D2, Num(Scale), Num(0))

Tails == UNION {[1..n -> EntryPool] : n \in 0..MaxHist}
ShortTails == UNION {[1..n -> EntryPool] : n \in 0..1}

\* tails of the padded histories: a fraction, a date that does not parse
LongTails ==
    UNION {[1..n -> {Entry(D1, Num(3 * Scale), Num(Scale + 1)),
                     Entry(Ymd(2025, 13, 40), Num(3 * Scale), Absent)}] :
             n \in 0..MaxHist}

\* padding lengths that put the tail just inside and just outside the
\* [:50] cut of the loop and the $slice of the pipeline
PadLens == {SliceKeep - 1, SliceLimit - 1}

Padding(n) == [i \in 1..n |-> PadEntry]

Doc(id, name, category, price, history) ==
    [_id |-> id, name |-> name, category |-> category, price |-> price,
     promotion |-> "", stock_history |-> history]

Prices1 == {499 * Scale + 1, 4000 * Scale}
Prices2 == {0, 4000 * Scale}

\* collections of two products with short histories; the history of a
\* product the $match leaves out is not varied
ShortSources ==
    UNION { { << Doc("p1", "A", "coffee", Num(price1), tail1),
                 Doc("p2", "B", "tea", Num(price2), tail2) >> :
                price1 \in Prices1, tail1 \in Tails,
                tail2 \in IF price2 > 0 THEN ShortTails ELSE {<<PadEntry>>} } :
            price2 \in Prices2 }

\* collections whose first product has a history around the two cuts
LongSources ==
    { << Doc("p1", "A", "coffee", Num(price1), Padding(pad) \o tail1),
         Doc("p2", "B", "tea", Num(4000 * Scale), <<PadEntry>>) >> :
        price1 \in Prices1, pad \in PadLens, tail1 \in LongTails }

\* the histories of the collections of three products
WideTails ==
    { <<>>, <<Entry(D1, Num(3 * Scale), Num(Scale + 1))>>,
      <<Entry(D3, Num(-2 * Scale), NumStr(4 * Scale))>> }

\* collections of three products with three different prices
WideSources ==
    { << Doc("p1", "A", "coffee", Num(499 * Scale + 1), tail1),
         Doc("p2", "B", "coffee", Num(2000 * Scale), tail2),
         Doc("p3", "C", "tea", Num(9000 * Scale), tail3) >> :
        tail1 \in WideTails, tail2 \in WideTails, tail3 \in WideTails }

\* the collection with no document
EmptySource == <<>>

Sources == ShortSources \cup LongSources \cup WideSources \cup {EmptySource}

\* the frames categorize_price_segment is applied to on its own: up to
\* MaxRows rows, a price missing or one of four values
PricePool == {NaN, 1000, 2000, 5000, 9000}

PriceFrames ==
    UNION {[1..n -> [price : PricePool]] : n \in 0..MaxRows}

\* the dates the date inputs are tried with
PickDates == {strptime(D1).date, strptime(D3).date, min_date, max_date}

(* --------------------------- the main script -------------------------- *)
All == "Tat ca"

\* rows of a frame that pass one selectbox
Select(frame, field, choice) ==
    IF choice = All THEN frame
    ELSE SelectSeq(frame, LAMBDA row : row[field] = choice)

Column(frame, field) == {frame[i][field] : i \in 1..Len(frame)}

\* lines 321-335: an empty frame stops the script
Stop ==
    /\ pc = "loaded"
    /\ df = <<>>
    /\ pc' = "stopped"
    /\ UNCHANGED <<source, client, load_error, all_data, all_dates, min_date,
                   max_date, df, sel_df, start_date, end_date, filtered_df,
                   again_df, warned>>
    /\ UNCHANGED report_vars

\* line 338
Cluster ==
    /\ pc = "loaded"
    /\ df # <<>>
    /\ df' = apply_clustering_improved(df)
    /\ pc' = "clustered"
    /\ UNCHANGED <<source, client, load_error, all_data, all_dates, min_date,
                   max_date, sel_df, start_date, end_date, filtered_df,
                   again_df, warned>>
    /\ UNCHANGED report_vars

\* lines 341-355: category, segment, product and display mode select boxes
SidebarFilters ==
    /\ pc = "clustered"
    /\ \E selected_category \in {All} \cup Column(df, "category") :
         LET by_category == Select(df, "category", selected_category)
         IN \E selected_segment \in {All} \cup Column(by_category, "segment") :
              LET by_segment == Select(by_category, "segment", selected_segment)
              IN \E selected_product \in {All} \cup Column(by_segment, "name") :
                   sel_df' = Select(by_segment, "name", selected_product)
    /\ display_mode' \in {Sales, Stock}
    /\ pc' = "selected"
    /\ UNCHANGED <<source, client, load_error, all_data, all_dates, min_date,
                   max_date, df, start_date, end_date, filtered_df, again_df,
                   warned, seg_df, segment_analysis>>

\* lines 360-363: the two date inputs, bounded by min_date and max_date, and
\* the call of the filter, whose result is bound to filtered_df
DateFilter ==
    /\ pc = "selected"
    /\ \E s \in PickDates, e \in PickDates :
         /\ DateLE(min_date, s) /\ DateLE(s, max_date)
         /\ DateLE(min_date, e) /\ DateLE(e, max_date)
         /\ start_date' = s
         /\ end_date' = e
         /\ LET result == filter_by_date_range_optimized(sel_df, s, e)
            IN /\ filtered_df' = result.frame
               /\ warned' = result.warned
               /\ sel_df' = result.input
    /\ pc' = "filtered"
    /\ UNCHANGED <<source, client, load_error, all_data, all_dates, min_date,
                   max_date, df, again_df>>
    /\ UNCHANGED report_vars

\* the filter applied once more to the frame it returned, same window
FilterAgain ==
    /\ pc = "filtered"
    /\ LET result ==
             filter_by_date_range_optimized(filtered_df, start_date, end_date)
       IN /\ again_df' = result.frame
          /\ filtered_df' = result.input
    /\ pc' = "refiltered"
    /\ UNCHANGED <<source, client, load_error, all_data, all_dates, min_date,
                   max_date, df, sel_df, start_date, end_date, warned>>
    /\ UNCHANGED report_vars

\* lines 734-788: in sales mode the cached rollup of the frame, filled in
\* and sorted by segment_order; the block is skipped in stock mode
SalesSegmentBlock ==
    /\ pc = "filtered"
    /\ segment_analysis' =
         IF display_mode = Sales /\ filtered_df # <<>>
         THEN first_segment_analysis(filtered_df)
         ELSE segment_analysis
    /\ pc' = "analysed"
    /\ UNCHANGED <<source, client, load_error, all_data, all_dates, min_date,
                   max_date, df, sel_df, start_date, end_date, filtered_df,
                   again_df, warned, display_mode, seg_df>>

\* line 834: filtered_df is bound to the segmented copy (seg_df here, so that
\* the frame the filter returned stays in filtered_df)
Segment ==
    /\ pc = "analysed"
    /\ seg_df' = categorize_price_segment(filtered_df)
    /\ pc' = "segmented"
    /\ UNCHANGED <<source, client, load_error, all_data, all_dates, min_date,
                   max_date, df, sel_df, start_date, end_date, filtered_df,
                   again_df, warned, display_mode, segment_analysis>>

\* line 881
Rollup ==
    /\ pc = "segmented"
    /\ segment_analysis' = calculate_segment_analysis(seg_df, display_mode)
    /\ pc' = "done"
    /\ UNCHANGED <<source, client, load_error, all_data, all_dates, min_date,
                   max_date, df, sel_df, start_date, end_date, filtered_df,
                   again_df, warned, display_mode, seg_df>>

Init ==
    /\ source \in Sources
    /\ pc = "start"
    /\ client = "none"
    /\ load_error = FALSE
    /\ all_data = <<>>
    /\ all_dates = {}
    /\ min_date = NoDate
    /\ max_date = NoDate
    /\ df = <<>>
    /\ sel_df = <<>>
    /\ start_date = NoDate
    /\ end_date = NoDate
    /\ filtered_df = <<>>
    /\ again_df = <<>>
    /\ warned = FALSE
    /\ display_mode = Sales
    /\ seg_df = <<>>
    /\ segment_analysis = <<>>

Next ==
    \/ LoadOpen
    \/ LoadPing
    \/ LoadIterate
    \/ LoadFinish
    \/ LoadExcept
    \/ Stop
    \/ Cluster
    \/ SidebarFilters
    \/ DateFilter
    \/ FilterAgain
    \/ SalesSegmentBlock
    \/ Segment
    \/ Rollup

Spec == Init /\ [][Next]_vars

\* categorize_price_segment on its own: the frame passed to line 834 is any
\* of PriceFrames
InitSegmenter ==
    /\ source = <<>>
    /\ pc = "analysed"
    /\ client = "none"
    /\ load_error = FALSE
    /\ all_data = <<>>
    /\ all_dates = {}
    /\ min_date = NoDate
    /\ max_date = NoDate
    /\ df = <<>>
    /\ sel_df = <<>>
    /\ start_date = NoDate
    /\ end_date = NoDate
    /\ filtered_df \in PriceFrames
    /\ again_df = <<>>
    /\ warned = FALSE
    /\ display_mode = Sales
    /\ seg_df = <<>>
    /\ segment_analysis = <<>>

NextSegmenter == Segment

SpecSegmenter == InitSegmenter /\ [][NextSegmenter]_vars

\* the frames the three stage functions are applied to on their own: the
\* frame with no rows, and the clustered loads of the three-product
\* collections
StageFrames ==
    {<<>>} \cup {apply_clustering_improved(LoadRows(Aggregate(collection))) :
                   collection \in WideSources}

\* filter_by_date_range_optimized, categorize_price_segment and
\* calculate_segment_analysis called in the script's order on any of
\* StageFrames, the date inputs bounded by the default window
InitStages ==
    /\ source = <<>>
    /\ pc = "selected"
    /\ client = "none"
    /\ load_error = FALSE
    /\ all_data = <<>>
    /\ all_dates = {}
    /\ min_date = DefaultMin
    /\ max_date = DefaultMax
    /\ df = <<>>
    /\ sel_df \in StageFrames
    /\ start_date = NoDate
    /\ end_date = NoDate
    /\ filtered_df = <<>>
    /\ again_df = <<>>
    /\ warned = FALSE
    /\ display_mode \in {Sales, Stock}
    /\ seg_df = <<>>
    /\ segment_analysis = <<>>

NextStages ==
    \/ DateFilter
    \/ SalesSegmentBlock
    \/ Segment
    \/ Rollup

SpecStages == InitStages /\ [][NextStages]_vars

(* ------------------------- vocabulary of the claims ------------------- *)
\* the load has returned to the script
LoadReturned == pc \notin {"start", "ping", "aggregate", "finish", "except"}

\* the filter has returned to the script
Filtered == pc \in {"filtered", "refiltered"}

\* F(lo) + ... + F(hi)
RECURSIVE SumRange(_, _, _)
SumRange(F(_), lo, hi) ==
    IF lo > hi THEN 0
    ELSE IF lo = hi THEN F(lo)
    ELSE LET mid == (lo + hi) \div 2
         IN SumRange(F, lo, mid) + SumRange(F, mid + 1, hi)

\* max(x, 0) of the quantity an entry holds under a field; a value that is
\* no number counts 0, a numeric string counts as its number when strings
\* are parsed
Quantity(entry, field, strings) ==
    IF entry.kind # "dict" THEN 0
    ELSE IF entry[field].t = "num" \/ (strings /\ entry[field].t = "str")
    THEN (IF entry[field].v > 0 THEN entry[field].v ELSE 0)
    ELSE 0

\* the sum of the clamped quantities of a history
Total(hist, field, strings) ==
    LET F(i) == Quantity(hist[i], field, strings)
    IN SumRange(F, 1, Len(hist))

\* the entry has a date that parses as YYYY-MM-DD
ValidDate(entry) ==
    entry.kind = "dict" /\ entry.date.fmt = "ymd" /\ strptime(entry.date).ok

\* ... and the date lies in the closed window
InsideWindow(entry, start, end) ==
    /\ ValidDate(entry)
    /\ Ordinal(start) <= Ordinal(strptime(entry.date).date)
    /\ Ordinal(strptime(entry.date).date) <= Ordinal(end)

Count(hist, x) == Cardinality({j \in 1..Len(hist) : hist[j] = x})
Entries(hist) == {hist[j] : j \in 1..Len(hist)}

\* the document of the collection a row was made from
DocOf(row) == CHOOSE j \in 1..Len(source) : source[j]._id = row.id

\* some entry of the rows the filter was given is inside the window and
\* holds a quantity float() rejects
BadQuantityInWindow ==
    \E i \in 1..Len(sel_df) : \E x \in Entries(sel_df[i].stock_history) :
        /\ InsideWindow(x, start_date, end_date)
        /\ \/ x.stock_decreased.t \in {"bad", "null"}
           \/ x.stock_increased.t \in {"bad", "null"}

(* ------------------------------- C1 ----------------------------------- *)
\* C1: once load_data_optimized has returned, on whatever path, a client it
\* opened is closed.
C1_ClientClosedOnReturn == LoadReturned => client # "open"

(* ------------------------------- C2 ----------------------------------- *)
\* C2: for a window with start <= end, each returned row holds exactly the
\* entries of the input row whose date parses and lies in [start, end].
C2_ExactlyWindowEvents ==
    (Filtered /\ DateLE(start_date, end_date)) =>
        /\ Len(filtered_df) = Len(sel_df)
        /\ \A i \in 1..Len(sel_df) :
             \A x \in Entries(sel_df[i].stock_history)
                      \cup Entries(filtered_df[i].stock_history) :
                 Count(filtered_df[i].stock_history, x) =
                     IF InsideWindow(x, start_date, end_date)
                     THEN Count(sel_df[i].stock_history, x) ELSE 0

(* ------------------------------- C3 ----------------------------------- *)
\* C3: each returned row has quantity_sold and stock_remaining equal to the
\* sums of the clamped quantities of the entries it keeps, and revenue and
\* stock_revenue equal to price times these sums.
C3_MetricsFromKeptEvents ==
    Filtered =>
        \A i \in 1..Len(filtered_df) :
            LET row == filtered_df[i]
                sold == Total(row.stock_history, "stock_decreased", TRUE)
                restocked == Total(row.stock_history, "stock_increased", TRUE)
            IN /\ row.quantity_sold = sold
               /\ row.stock_remaining = restocked
               /\ row.revenue = row.price * sold
               /\ row.stock_revenue = row.price * restocked

(* ------------------------------- C4 ----------------------------------- *)
\* C4: filtering the filter's output again with the same window returns a
\* frame equal to that output.
C4_Idempotent == pc = "refiltered" => again_df = filtered_df

\* the second pass ran on a frame the first pass had really restricted
C4_Witness ==
    /\ pc = "refiltered"
    /\ ~warned
    /\ \E i \in 1..Len(sel_df) :
         /\ Len(filtered_df[i].stock_history) > 0
         /\ Len(filtered_df[i].stock_history) < Len(sel_df[i].stock_history)
         /\ filtered_df[i].quantity_sold > 0

(* ------------------------------- C5 ----------------------------------- *)
\* C5: filtering with the window [min_date, max_date] of the load gives each
\* row the totals and revenues the load computed for it.
C5_FullWindowEqualsLoad ==
    (Filtered /\ start_date = min_date /\ end_date = max_date) =>
        \A i \in 1..Len(filtered_df) :
            /\ filtered_df[i].quantity_sold = filtered_df[i].total_sold
            /\ filtered_df[i].stock_remaining =
                   filtered_df[i].total_stock_increased
            /\ filtered_df[i].revenue = sel_df[i].revenue
            /\ filtered_df[i].stock_revenue = sel_df[i].stock_revenue

C7_EmptyWindowAllZero ==
    Filtered =>
        \A i \in 1..Len(sel_df) :
            (\A x \in Entries(sel_df[i].stock_history) :
                 ~InsideWindow(x, start_date, end_date))
            => /\ ~warned
               /\ Len(filtered_df) = Len(sel_df)
               /\ filtered_df[i].stock_history = <<>>
               /\ filtered_df[i].quantity_sold = 0
               /\ filtered_df[i].stock_remaining = 0
               /\ filtered_df[i].revenue = 0
               /\ filtered_df[i].stock_revenue = 0

C9_BadDateExcluded ==
    (pc = "loaded" /\ ~load_error) =>
        /\ \A i \in 1..Len(df) :
             LET hist == Take(source[DocOf(df[i])].stock_history, SliceLimit)
                 dated == SelectSeq(hist, ValidDate)
             IN /\ df[i].total_sold =
                       Round0(Total(dated, "stock_decreased", FALSE))
                /\ df[i].total_stock_increased =
                       Round0(Total(dated, "stock_increased", FALSE))
        /\ \A d \in {min_date, max_date} :
             \/ d \in {DefaultMin, DefaultMax} /\ all_dates = {}
             \/ \E i \in 1..Len(df) : \E x \in Entries(df[i].stock_history) :
                    ValidDate(x) /\ strptime(x.date).date = d

(* ------------------------------- C10 ---------------------------------- *)
NonNegative(row) ==
    /\ row.total_sold >= 0
    /\ row.total_stock_increased >= 0
    /\ row.revenue >= 0
    /\ row.stock_revenue >= 0

\* C10: every row the load returns and every row the filter returns has
\* sold total, restocked total, revenue and stock revenue >= 0.
C10_MetricsNonNegative ==
    /\ LoadReturned => \A i \in 1..Len(df) : NonNegative(df[i])
    /\ Filtered =>
         \A i \in 1..Len(filtered_df) :
             /\ NonNegative(filtered_df[i])
             /\ filtered_df[i].quantity_sold >= 0
             /\ filtered_df[i].stock_remaining >= 0

\* the filter recomputed a row that keeps an entry with a negative quantity
C10_Witness ==
    /\ pc = "filtered" /\ ~warned
    /\ \E i \in 1..Len(filtered_df) :
         \E x \in Entries(filtered_df[i].stock_history) :
             x.stock_decreased.t = "num" /\ x.stock_decreased.v < 0

(* ------------------------------- C11 ---------------------------------- *)
\* the frames of the stages after the load
Stages == <<df, sel_df, filtered_df, again_df, seg_df>>

\* the price the load gave the record a later row belongs to
LoadedPrice(row) ==
    all_data[CHOOSE i \in 1..Len(all_data) : all_data[i].id = row.id].price

\* C11: every record the load outputs has a price of at least 1000, a source
\* price below 1000 gives exactly 1000, and in every later frame (clustered,
\* selected, filtered, segmented) a row has the price the load gave it.
C11_PriceFloor ==
    /\ \A i \in 1..Len(all_data) :
         /\ all_data[i].price >= 1000
         /\ source[DocOf(all_data[i])].price.v < 1000 * Scale
              => all_data[i].price = 1000
    /\ \A k \in 1..Len(Stages) : \A i \in 1..Len(Stages[k]) :
         Stages[k][i].price = LoadedPrice(Stages[k][i])

\* the rollup has run over a record whose source price rounds to less
\* than 1000
C11_Witness ==
    /\ pc = "done"
    /\ \E i \in 1..Len(seg_df) :
         /\ RoundWhole(source[DocOf(seg_df[i])].price.v) < 1000
         /\ seg_df[i].price = 1000

(* ------------------------------- C12 ---------------------------------- *)
\* revenue and stock_revenue of a row are its price times the two totals the
\* row carries under the given columns
RevenueConsistent(row, sold, restocked) ==
    /\ row.revenue = row.price * row[sold]
    /\ row.stock_revenue = row.price * row[restocked]

\* C12: in every record the load outputs, and in every record the date
\* filter outputs, revenue = price * sold total and stock_revenue = price *
\* restocked total, the totals being those of the same record.
C12_RevenueIsPriceTimesTotal ==
    /\ \A i \in 1..Len(all_data) :
         RevenueConsistent(all_data[i], "total_sold", "total_stock_increased")
    /\ Filtered =>
         \A i \in 1..Len(filtered_df) :
            RevenueConsistent(filtered_df[i], "quantity_sold",
                              "stock_remaining")

(* ------------------------------- C13 ---------------------------------- *)
\* the dates of the entries of a history that have a valid date
ValidDates(hist) ==
    {strptime(hist[j].date).date : j \in {n \in 1..Len(hist) : ValidDate(hist[n])}}

\* min_date and max_date are the earliest and the latest date of S, or the
\* default window when S is empty
DateBoundsOf(S) ==
    IF S = {}
    THEN min_date = Date(2025, 3, 5) /\ max_date = Date(2025, 5, 25)
    ELSE /\ min_date \in S /\ \A d \in S : Ordinal(min_date) <= Ordinal(d)
         /\ max_date \in S /\ \A d \in S : Ordinal(d) <= Ordinal(max_date)

\* C13 as stated: the bounds are taken over all events of the movement
\* history of every loaded record.
C13_DatesOverAllEvents ==
    LoadReturned =>
      /\ DateBoundsOf(UNION {ValidDates(source[DocOf(all_data[i])].stock_history) :
                               i \in 1..Len(all_data)})
      /\ Ordinal(min_date) <= Ordinal(max_date)

\* C13: min_date and max_date are the earliest and the latest valid date over
\* the events the load keeps of each record (the first 50 of its history),
\* the default window (2025-03-05, 2025-05-25) when none of them has a valid
\* date, and min_date <= max_date.
C13_DatesOverKeptEvents ==
    LoadReturned =>
      /\ DateBoundsOf(UNION {ValidDates(all_data[i].stock_history) :
                               i \in 1..Len(all_data)})
      /\ Ordinal(min_date) <= Ordinal(max_date)

\* the load has returned two different bounds, and a record has more events
\* than it keeps
C13_Witness ==
    /\ pc = "loaded"
    /\ Ordinal(min_date) < Ordinal(max_date)
    /\ min_date # Date(2025, 3, 5)
    /\ \E i \in 1..Len(all_data) :
         Len(source[DocOf(all_data[i])].stock_history)
           > Len(all_data[i].stock_history)

(* ------------------------------- C14 ---------------------------------- *)
\* the rows of a frame that have a price
Priced(frame) == {i \in 1..Len(frame) : frame[i].price # NaN}

\* the j-th smallest price of the frame (j = 1 for the smallest)
OrderStat(frame, j) ==
    CHOOSE p \in {frame[i].price : i \in Priced(frame)} :
        /\ Cardinality({i \in Priced(frame) : frame[i].price < p}) < j
        /\ j <= Cardinality({i \in Priced(frame) : frame[i].price <= p})

\* four times the percentile 25 * quarters of the prices, linear
\* interpolation between the two nearest order statistics
Percentile4(frame, quarters) ==
    LET n == Cardinality(Priced(frame))
        below == ((n - 1) * quarters) \div 4
        part == ((n - 1) * quarters) % 4
    IN IF part = 0 THEN 4 * OrderStat(frame, below + 1)
       ELSE (4 - part) * OrderStat(frame, below + 1)
            + part * OrderStat(frame, below + 2)

Low == "Thap"
Medium == "Trung binh"
High == "Cao"
Undetermined == "Khong xac dinh"

\* the segmenter has been applied to filtered_df and has given seg_df
Segmented == pc \in {"segmented", "done"}

LowestPrice(frame) ==
    CHOOSE p \in {frame[i].price : i \in Priced(frame)} :
        \A i \in Priced(frame) : p <= frame[i].price

HighestPrice(frame) ==
    CHOOSE p \in {frame[i].price : i \in Priced(frame)} :
        \A i \in Priced(frame) : frame[i].price <= p

\* C15: when p25 = p75, every record is Medium if the lowest and the highest
\* price are equal; otherwise a record with price below (min + max) / 2 is
\* Low, one with price at or above it is High, and no record is Medium.
C15_FallbackCascade ==
    (/\ Segmented
     /\ Priced(filtered_df) # {}
     /\ Percentile4(filtered_df, 1) = Percentile4(filtered_df, 3)) =>
       LET lo == LowestPrice(filtered_df)
           hi == HighestPrice(filtered_df)
       IN IF lo = hi
          THEN \A i \in 1..Len(seg_df) : seg_df[i].segment = Medium
          ELSE /\ \A i \in Priced(filtered_df) :
                    seg_df[i].segment =
                      IF 2 * seg_df[i].price < lo + hi THEN Low ELSE High
               /\ \A i \in 1..Len(seg_df) : seg_df[i].segment # Medium

\* the midpoint fallback has labelled a record whose price is the midpoint
C15_Witness ==
    /\ pc = "segmented"
    /\ Priced(filtered_df) # {}
    /\ Percentile4(filtered_df, 1) = Percentile4(filtered_df, 3)
    /\ LowestPrice(filtered_df) # HighestPrice(filtered_df)
    /\ \E i \in Priced(filtered_df) :
         /\ 2 * seg_df[i].price
              = LowestPrice(filtered_df) + HighestPrice(filtered_df)
         /\ seg_df[i].segment = High
    /\ \E i \in Priced(filtered_df) : seg_df[i].segment = Low

RolledUp == pc = "done"

\* the labels of the rows of a rollup, in the order of the rows
RowLabels(rows) == [k \in 1..Len(rows) |-> rows[k].segment]

\* a rollup row with nothing in it
ZeroRow(row) ==
    /\ row.revenue = 0 /\ row.quantity_sold = 0
    /\ row.revenue_pct.num = 0 /\ row.revenue_pct.den # 0
    /\ row.quantity_pct.num = 0 /\ row.quantity_pct.den # 0

\* C17: the rollup of a segmented collection has exactly three rows, for Low,
\* Medium and High in that order, and the row of a segment no record falls in
\* holds revenue, quantity and both percentages 0.
C17_ThreeRowsInOrder ==
    RolledUp =>
      /\ RowLabels(segment_analysis) = <<Low, Medium, High>>
      /\ \A k \in 1..Len(segment_analysis) :
           (\A i \in 1..Len(seg_df) :
               seg_df[i].segment # segment_analysis[k].segment)
           => ZeroRow(segment_analysis[k])

(* ------------------------------- C18 ---------------------------------- *)
\* the total of a column over the rows of a rollup
RowsTotal(rows, column) ==
    LET F(k) == rows[k][column]
    IN SumRange(F, 1, Len(rows))

\* pct is 100 * value / total, or 0 when the total is 0, and comes from no
\* division by zero
ExactPct(pct, value, total) ==
    /\ pct.den # 0
    /\ pct = IF total > 0 THEN Fraction(100 * value, total) ELSE Fraction(0, 1)

\* the same up to the rounding to one decimal: within 0.05
NearPct(pct, value, total) ==
    /\ pct.den # 0
    /\ IF total > 0
       THEN LET diff == pct.num * total - 100 * value * pct.den
            IN 20 * (IF diff < 0 THEN -diff ELSE diff) <= pct.den * total
       ELSE pct.num = 0

\* the cached rollup of the sales block has been computed
FirstRolledUp == pc = "analysed" /\ display_mode = Sales /\ filtered_df # <<>>

\* C18: in every row of the rollup, each of the two percentages is 100 times
\* the row's value over the total of all rows when that total is greater
\* than 0, and 0 when the total is 0, with no division by zero, in the
\* cached rollup of the sales block (rounded to one decimal) and in the
\* final rollup of either mode.
C18_PercentOfTotal ==
    /\ FirstRolledUp =>
         \A k \in 1..Len(segment_analysis) :
            /\ NearPct(segment_analysis[k].revenue_pct,
                       segment_analysis[k].revenue,
                       RowsTotal(segment_analysis, "revenue"))
            /\ NearPct(segment_analysis[k].quantity_pct,
                       segment_analysis[k].quantity_sold,
                       RowsTotal(segment_analysis, "quantity_sold"))
    /\ RolledUp =>
         \A k \in 1..Len(segment_analysis) :
            /\ ExactPct(segment_analysis[k].revenue_pct,
                        segment_analysis[k].revenue,
                        RowsTotal(segment_analysis, "revenue"))
            /\ ExactPct(segment_analysis[k].quantity_pct,
                        segment_analysis[k].quantity_sold,
                        RowsTotal(segment_analysis, "quantity_sold"))

(* ------------------------------- C19 ---------------------------------- *)
\* the total of a column over the records of a frame
FrameTotal(frame, column) ==
    LET F(i) == frame[i][column]
    IN SumRange(F, 1, Len(frame))

\* the column of the segmented frame the rollup sums under a metric
MetricColumn(metric) ==
    IF display_mode = Sales THEN metric
    ELSE IF metric = "revenue" THEN "stock_revenue" ELSE "stock_remaining"

\* the rows of the rollup for Low, Medium and High
CanonicalRows == {k \in 1..Len(segment_analysis) :
                    segment_analysis[k].segment \in {Low, Medium, High}}

\* total times the sum of the percentages of the canonical rows, every
\* percentage being a fraction whose denominator divides the total
RECURSIVE PctSumTimes(_, _, _)
PctSumTimes(rows, field, total) ==
    IF rows = {} THEN 0
    ELSE LET k == CHOOSE r \in rows : TRUE
             pct == segment_analysis[k][field]
         IN pct.num * (total \div pct.den)
            + PctSumTimes(rows \ {k}, field, total)

SumsTo100(field, total) ==
    total > 0 =>
      /\ \A k \in CanonicalRows :
           /\ segment_analysis[k][field].den > 0
           /\ total % segment_analysis[k][field].den = 0
      /\ PctSumTimes(CanonicalRows, field, total) = 100 * total

\* C19: for a non-empty segmented collection whose total is not 0, the
\* percentages of the Low, Medium and High rows of the rollup add up to 100,
\* for revenue and for quantity.
C19_PercentagesSumTo100 ==
    (RolledUp /\ seg_df # <<>>) =>
      /\ SumsTo100("revenue_pct", FrameTotal(seg_df, MetricColumn("revenue")))
      /\ SumsTo100("quantity_pct",
                   FrameTotal(seg_df, MetricColumn("quantity_sold")))

\* a rollup in stock mode of three segments, each with a share that is no
\* whole number of percent, the sales totals differing from the stock totals
C19_Witness ==
    /\ RolledUp
    /\ display_mode = Stock
    /\ Len(segment_analysis) = 3
    /\ \A k \in 1..Len(segment_analysis) :
         /\ segment_analysis[k].revenue > 0
         /\ segment_analysis[k].revenue_pct.den > 1
    /\ FrameTotal(seg_df, "revenue") # FrameTotal(seg_df, "stock_revenue")

(* ------------------------------- C20 ---------------------------------- *)
\* the _id of the documents the query of the load matches
MatchingIds == {source[j]._id : j \in {n \in 1..Len(source) : Matches(source[n])}}

\* C20: a malformed event or record aborts no stage: a load that reads the
\* collection outputs a record for every document of the query, whatever its
\* events hold, and the date filter runs to its end (its except clause is
\* not taken) and returns every record with only the events of the window.
C20_MalformedNeverAborts ==
    /\ (LoadReturned /\ ~load_error) =>
         {all_data[i].id : i \in 1..Len(all_data)} = MatchingIds
    /\ Filtered =>
         /\ ~warned
         /\ Len(filtered_df) = Len(sel_df)
         /\ \A i \in 1..Len(filtered_df) :
              \A x \in Entries(filtered_df[i].stock_history) :
                 InsideWindow(x, start_date, end_date)

(* ------------------------------- C21 ---------------------------------- *)
\* what load_data_optimized returns to the script
Returned == <<df, min_date, max_date>>

\* what it returns when it reads a collection in which the query finds no
\* document
ReturnedForNoRecords == <<<<>>, Date(2025, 3, 5), Date(2025, 5, 25)>>

\* C21: when the connection, the ping or the query fails, what the load
\* returns differs from what it returns for a source with no records, so the
\* caller can tell the failure from an empty load.
C21_FailureDistinctFromEmpty ==
    (pc = "loaded" /\ load_error) => Returned # ReturnedForNoRecords

(* ------------------------------- C22 ---------------------------------- *)
\* the date filter has returned (and later stages may have run)
FilterReturned == pc \in {"filtered", "refiltered", "analysed", "segmented", "done"}

\* C22: the date filter, the segmenter and the rollup each return an empty
\* result for an empty input, and the filter does so without taking its
\* except clause.
C22_EmptyStaysEmpty ==
    /\ (FilterReturned /\ sel_df = <<>>) => (filtered_df = <<>> /\ ~warned)
    /\ (Segmented /\ filtered_df = <<>>) => seg_df = <<>>
    /\ (RolledUp /\ seg_df = <<>>) => segment_analysis = <<>>

\* the three stages have run on the frame with no rows
C22_Witness ==
    /\ RolledUp
    /\ sel_df = <<>> /\ filtered_df = <<>> /\ seg_df = <<>>
    /\ segment_analysis = <<>>

(* ------------------------------- C23 ---------------------------------- *)
\* some record of the frame carries a segment label
Labelled(frame) == \E i \in 1..Len(frame) : "segment" \in DOMAIN frame[i]

\* the rollup groups the labels the segmenter gave over the prices of the
\* filtered collection
RollupOfFilteredLabels ==
    /\ seg_df = categorize_price_segment(filtered_df)
    /\ {segment_analysis[k].segment : k \in 1..Len(segment_analysis)}
         = {seg_df[i].segment : i \in 1..Len(seg_df)}

\* C23: the stages run in the order Derive, Filter, Segment, Rollup: no
\* record carries a segment label until the date filter has returned, and
\* the rollup groups the labels the segmenter assigned over the filtered
\* collection.
C23_FilterBeforeSegment ==
    /\ ~FilterReturned => (~Labelled(df) /\ ~Labelled(sel_df))
    /\ RolledUp => RollupOfFilteredLabels

(* ------------------------------- C24 ---------------------------------- *)
\* the columns the filter may change
FilterColumns ==
    {"stock_history", "quantity_sold", "stock_remaining", "revenue",
     "stock_revenue"}

\* kept is hist with some of its entries left out and the others in their
\* original order (hence a subsequence of hist)
KeptInOrder(kept, hist) ==
    kept = SelectSeq(hist, LAMBDA entry : entry \in Entries(kept))

\* C24: the output of the filter has the records of its input in the same
\* order, each with every column other than stock_history, quantity_sold,
\* stock_remaining, revenue and stock_revenue unchanged (id, name, category,
\* price, promotion, segment among them), and each kept history is a
\* subsequence of the input history.
C24_FilterFrame ==
    Filtered =>
      /\ Len(filtered_df) = Len(sel_df)
      /\ \A i \in 1..Len(sel_df) :
           /\ DOMAIN filtered_df[i] = DOMAIN sel_df[i]
           /\ {"id", "name", "category", "price", "promotion", "segment"}
                \subseteq DOMAIN sel_df[i]
           /\ \A column \in DOMAIN sel_df[i] \ FilterColumns :
                filtered_df[i][column] = sel_df[i][column]
           /\ KeptInOrder(filtered_df[i].stock_history,
                          sel_df[i].stock_history)

\* the filter has recomputed two records or more, dropping a part of a
\* history and changing a metric
C24_Witness ==
    /\ pc = "filtered" /\ ~warned
    /\ Len(filtered_df) >= 2
    /\ \E i \in 1..Len(filtered_df) :
         /\ filtered_df[i].stock_history # <<>>
         /\ Len(filtered_df[i].stock_history) < Len(sel_df[i].stock_history)
         /\ filtered_df[i].quantity_sold # sel_df[i].quantity_sold

(* ------------------------------- C25 ---------------------------------- *)
\* C25: when the recomputation raises for a record (a quantity inside the
\* window that float() rejects), the filter returns the whole input
\* collection unchanged: every record keeps its unfiltered history and the
\* metrics it had before.
C25_FallbackReturnsInput ==
    (pc = "filtered" /\ BadQuantityInWindow) =>
       /\ warned
       /\ filtered_df = sel_df

\* the fallback has returned two records, one of which the recomputation
\* would have changed: it keeps an event outside the window
C25_Witness ==
    /\ pc = "filtered" /\ BadQuantityInWindow
    /\ Len(filtered_df) >= 2
    /\ \E i \in 1..Len(filtered_df) :
         /\ \A x \in Entries(sel_df[i].stock_history) :
               x.stock_decreased.t \notin {"bad", "null"}
               /\ x.stock_increased.t \notin {"bad", "null"}
         /\ \E x \in Entries(filtered_df[i].stock_history) :
               ~InsideWindow(x, start_date, end_date)

====
